---- MODULE Spec2Model ----
(***************************************************************************)
(* The ChatInterface component of the Barista frontend: its React state,   *)
(* the handleSend request/response cycle, the Web Speech handlers and the  *)
(* chat requests it has in flight.                                         *)
(*                                                                         *)
(* Text is a sequence of characters, so that String.prototype.trim and the *)
(* truthiness tests of the code are computed rather than assumed.          *)
(*                                                                         *)
(* Handlers attached through JSX (onChange, onKeyDown, onClick) belong to  *)
(* the latest render and read the current state.  The handler installed on *)
(* the SpeechRecognition object is created once, by the effect with the    *)
(* empty dependency list, and keeps the handleSend of the first render:    *)
(* that closure sees the state as it was at mount.                         *)
(***************************************************************************)
EXTENDS Naturals, Sequences, FiniteSets

\* ---------------------------------------------------------------- bounds
MaxRequests == 2     \* chat requests issued over one run

\* ---------------------------------------------------------------- values
NULL == "null"
UNDEFINED == "undefined"

\* What the user may type or say: nothing, blanks only, a word, a word after a blank.
Texts == {<<>>, <<" ">>, <<"a">>, <<" ", "a">>}

SessionIds == {"s1", "s2"}
Replies == {<<"r1">>}
ImageUrls == {NULL, "img"}

\* The content of the message shown when a request fails.
Apology == <<"Sorry, I encountered an error. Please try again.">>

\* The JSON body of a response: {response, session_id, image_url?}.
ResponseData == [response : Replies, session_id : SessionIds, image_url : ImageUrls]

\* What a request can come back with: fetch rejects, the status is not OK
\* (the body is never read), the body does not parse, or an OK response.
NoData == [response |-> <<>>, session_id |-> NULL, image_url |-> NULL]
ErrorBody == [response |-> <<"detail">>, session_id |-> "s2", image_url |-> "img"]
Pending == [kind |-> "pending", data |-> NoData]
Outcomes ==
    {[kind |-> "reject", data |-> NoData], [kind |-> "bad_json", data |-> NoData],
     [kind |-> "http_error", data |-> ErrorBody]}
    \cup [kind : {"ok"}, data : ResponseData]

VARIABLES
    messages,       \* useState<Message[]>([])
    input,          \* useState("")
    isLoading,      \* useState(false)
    sessionId,      \* useState<string | null>(null)
    isListening,    \* useState(false)
    recognition,    \* useState<SpeechRecognition | null>(null), set by the mount effect
    recState,       \* the SpeechRecognition object: "idle", "listening", "closing"
    inflight,       \* handleSend calls suspended at an `await` of the try block
    nPosts,         \* POSTs to /api/chat/ issued
    nAccepted,      \* handleSend calls that passed the guard
    firstSid,       \* session id returned by the first success since mount
    heldBeforeRefresh \* sessionId at the moment of the last page refresh

vars == <<messages, input, isLoading, sessionId, isListening, recognition, recState,
          inflight, nPosts, nAccepted, firstSid, heldBeforeRefresh>>

speechVars == <<isListening, recognition, recState>>
logVars == <<firstSid, heldBeforeRefresh>>

\* ---------------------------------------------------------------- helpers
IsSpace(c) == c = " "

RECURSIVE TrimStart(_)
TrimStart(s) == IF s # <<>> /\ IsSpace(Head(s)) THEN TrimStart(Tail(s)) ELSE s

RECURSIVE TrimEnd(_)
TrimEnd(s) ==
    IF s # <<>> /\ IsSpace(s[Len(s)]) THEN TrimEnd(SubSeq(s, 1, Len(s) - 1)) ELSE s

\* String.prototype.trim
Trim(s) == TrimEnd(TrimStart(s))

\* `data.image_url || undefined`
ImageOrUndefined(u) == IF u = NULL \/ u = "" THEN UNDEFINED ELSE u

UserMessage(text) == [role |-> "user", content |-> text, imageUrl |-> UNDEFINED]

AssistantMessage(data) ==
    [role |-> "assistant", content |-> data.response,
     imageUrl |-> ImageOrUndefined(data.image_url)]

ErrorMessage == [role |-> "assistant", content |-> Apology, imageUrl |-> UNDEFINED]

\* The state a handleSend closure reads: that of the render it was created in.
CurrentClosure == [input |-> input, isLoading |-> isLoading, sessionId |-> sessionId]
MountClosure == [input |-> <<>>, isLoading |-> FALSE, sessionId |-> NULL]

\* `messageText || input.trim()`; arg is <<>> when handleSend is called without
\* an argument and <<t>> when it is called with the text t.
SendText(c, arg) == IF arg # <<>> /\ arg[1] # <<>> THEN arg[1] ELSE Trim(c.input)

\* `if (!text || isLoading) return;`
Rejected(c, text) == text = <<>> \/ c.isLoading

\* ---------------------------------------------------------------- handleSend
\* handleSend up to `await fetch`, run in closure c; `typed` is the value the
\* handler that called it has already given to `input` in the same batch.
HandleSend(c, arg, via, typed) ==
    LET text == SendText(c, arg) IN
    IF Rejected(c, text)
    THEN /\ input' = typed
         /\ UNCHANGED <<messages, isLoading, inflight, nPosts, nAccepted>>
    ELSE /\ messages' = Append(messages, UserMessage(text))
         /\ input' = <<>>
         /\ isLoading' = TRUE
         /\ inflight' = inflight \cup
                {[id |-> nPosts + 1, message |-> text, session_id |-> c.sessionId,
                  via |-> via, outcome |-> Pending]}
         /\ nPosts' = nPosts + 1
         /\ nAccepted' = nAccepted + 1

\* OnSuccess with the test of the session id inverted: `if (sessionId)`.
OnSuccessInvertedTest(r, data) ==
    /\ sessionId' = IF r.session_id # NULL THEN data.session_id ELSE sessionId
    /\ messages' = Append(messages, AssistantMessage(data))
    /\ isLoading' = FALSE
    /\ inflight' = inflight \ {r}
    /\ firstSid' = IF firstSid = NULL THEN data.session_id ELSE firstSid
    /\ UNCHANGED <<input, nPosts, nAccepted>>

\* The rest of handleSend after a successful response with body `data`: the
\* closure's sessionId is the one the request was sent with.
OnSuccess(r, data) ==
    /\ sessionId' = IF r.session_id = NULL THEN data.session_id ELSE sessionId
    /\ messages' = Append(messages, AssistantMessage(data))
    /\ isLoading' = FALSE
    /\ inflight' = inflight \ {r}
    /\ firstSid' = IF firstSid = NULL THEN data.session_id ELSE firstSid
    /\ UNCHANGED <<input, nPosts, nAccepted>>

\* OnFailure showing what the failed response carried instead of the fixed text.
OnFailureShowsBody(r, data) ==
    /\ messages' = Append(messages, AssistantMessage(data))
    /\ isLoading' = FALSE
    /\ inflight' = inflight \ {r}
    /\ UNCHANGED <<input, sessionId, nPosts, nAccepted, firstSid>>

\* OnFailure with a catch block that sends the request again.
OnFailureRetries(r, data) ==
    /\ inflight' = (inflight \ {r}) \cup
            {[r EXCEPT !.id = nPosts + 1, !.outcome = Pending]}
    /\ nPosts' = nPosts + 1
    /\ UNCHANGED <<messages, input, isLoading, sessionId, nAccepted, firstSid>>

\* OnFailure without the finally block: setIsLoading(false) only ends the try.
OnFailureStaysLoading(r, data) ==
    /\ messages' = Append(messages, ErrorMessage)
    /\ inflight' = inflight \ {r}
    /\ UNCHANGED <<input, isLoading, sessionId, nPosts, nAccepted, firstSid>>

\* The catch and finally blocks of handleSend; `data` is what the failed
\* response carried, which the code never reads.
OnFailure(r, data) ==
    /\ messages' = Append(messages, ErrorMessage)
    /\ isLoading' = FALSE
    /\ inflight' = inflight \ {r}
    /\ UNCHANGED <<input, sessionId, nPosts, nAccepted, firstSid>>

\* ---------------------------------------------------------------- actions
\* onChange of the text input (disabled while isLoading).
TypeInput(t) ==
    /\ ~isLoading
    /\ input' = t
    /\ UNCHANGED <<messages, isLoading, sessionId, inflight, nPosts, nAccepted>>
    /\ UNCHANGED <<speechVars, logVars>>

\* onKeyDown with Enter and no Shift (the input is disabled while isLoading).
PressEnter ==
    /\ ~isLoading
    /\ nPosts < MaxRequests
    /\ HandleSend(CurrentClosure, <<>>, "typed", input)
    /\ UNCHANGED <<sessionId, speechVars, logVars>>

\* onClick of the send button (disabled={isLoading || !input.trim()}).
ClickSend ==
    /\ ~(isLoading \/ Trim(input) = <<>>)
    /\ nPosts < MaxRequests
    /\ HandleSend(CurrentClosure, <<>>, "typed", input)
    /\ UNCHANGED <<sessionId, speechVars, logVars>>

\* handleVoiceInput, the onClick of the microphone button (disabled while isLoading).
HandleVoiceInput ==
    /\ ~isLoading
    /\ IF recognition = NULL
       THEN UNCHANGED <<isListening, recState>>
       ELSE IF isListening
            THEN /\ isListening' = FALSE
                 /\ UNCHANGED recState
            ELSE /\ isListening' = TRUE
                 /\ recState' = IF recState = "idle" THEN "listening" ELSE recState
    /\ UNCHANGED <<messages, input, isLoading, sessionId, recognition, inflight,
                   nPosts, nAccepted>>
    /\ UNCHANGED logVars

\* recognitionInstance.onresult: the handler of the mount effect.
SpeechResult(transcript) ==
    /\ recState = "listening"
    /\ nPosts < MaxRequests
    /\ isListening' = FALSE
    /\ recState' = "closing"
    /\ HandleSend(MountClosure, <<transcript>>, "speech", transcript)
    /\ UNCHANGED <<sessionId, recognition, logVars>>

\* recognitionInstance.onerror
SpeechError ==
    /\ recState = "listening"
    /\ isListening' = FALSE
    /\ recState' = "closing"
    /\ UNCHANGED <<messages, input, isLoading, sessionId, recognition, inflight,
                   nPosts, nAccepted>>
    /\ UNCHANGED logVars

\* recognitionInstance.onend
SpeechEnd ==
    /\ recState # "idle"
    /\ isListening' = FALSE
    /\ recState' = "idle"
    /\ UNCHANGED <<messages, input, isLoading, sessionId, recognition, inflight,
                   nPosts, nAccepted>>
    /\ UNCHANGED logVars

\* The network settles the fetch of a pending request with outcome o.
Respond(r, o) ==
    /\ r \in inflight
    /\ r.outcome = Pending
    /\ inflight' = (inflight \ {r}) \cup {[r EXCEPT !.outcome = o]}
    /\ UNCHANGED <<messages, input, isLoading, sessionId, nPosts, nAccepted>>
    /\ UNCHANGED <<speechVars, logVars>>

\* handleSend resumes after its awaits and runs to its end.
Resume(r) ==
    /\ r \in inflight
    /\ r.outcome # Pending
    /\ IF r.outcome.kind = "ok"
       THEN OnSuccess(r, r.outcome.data)
       ELSE OnFailure(r, r.outcome.data)
    /\ UNCHANGED <<speechVars, heldBeforeRefresh>>

\* The page is reloaded: the component is constructed again and its pending
\* continuations are gone with the old document.
Refresh ==
    /\ heldBeforeRefresh' = sessionId
    /\ messages' = <<>>
    /\ input' = <<>>
    /\ isLoading' = FALSE
    /\ sessionId' = NULL
    /\ isListening' = FALSE
    /\ recState' = "idle"
    /\ inflight' = {}
    /\ firstSid' = NULL
    /\ UNCHANGED <<recognition, nPosts, nAccepted>>

Init ==
    /\ messages = <<>>
    /\ input = <<>>
    /\ isLoading = FALSE
    /\ sessionId = NULL
    /\ isListening = FALSE
    /\ recognition \in {NULL, "SpeechRecognition"}
    /\ recState = "idle"
    /\ inflight = {}
    /\ nPosts = 0
    /\ nAccepted = 0
    /\ firstSid = NULL
    /\ heldBeforeRefresh = NULL

Type == \E t \in Texts : TypeInput(t)
Speak == \E t \in Texts : SpeechResult(t)
Network == \E r \in inflight, o \in Outcomes : Respond(r, o)
Continue == \E r \in inflight : Resume(r)

Next ==
    \/ Type
    \/ PressEnter
    \/ ClickSend
    \/ HandleVoiceInput
    \/ Speak
    \/ SpeechError
    \/ SpeechEnd
    \/ Network
    \/ Continue
    \/ Refresh

Spec == Init /\ [][Next]_vars

\* The component while it stays mounted: every step but the page refresh.
NextMounted ==
    \/ Type
    \/ PressEnter
    \/ ClickSend
    \/ HandleVoiceInput
    \/ Speak
    \/ SpeechError
    \/ SpeechEnd
    \/ Network
    \/ Continue

\* Every issued request is settled by the network, and the event loop runs
\* every continuation that is ready.
LiveSpec == Init /\ [][NextMounted]_vars /\ WF_vars(Network) /\ WF_vars(Continue)

\* ---------------------------------------------------------------- vocabulary of the properties
Last(q) == q[Len(q)]

IsPrefix(p, q) == Len(p) <= Len(q) /\ SubSeq(q, 1, Len(p)) = p

Ids(S) == {r.id : r \in S}

\* The requests a step issues, and whether a step is the one in which the
\* handleSend call of request r runs to its end.
Issued == {r \in inflight' : r.id \notin Ids(inflight)}
Finishes(r) == r \in inflight /\ r.id \notin Ids(inflight') /\ ~Refresh

Failed(r) == r.outcome.kind \in {"reject", "http_error", "bad_json"}
Succeeded(r) == r.outcome.kind = "ok"

\* The message the failure path is required to show.
StaticApology ==
    [role |-> "assistant",
     content |-> <<"Sorry, I encountered an error. Please try again.">>,
     imageUrl |-> UNDEFINED]

\* The message a successful response is required to show.
ReplyFor(data) ==
    [role |-> "assistant", content |-> data.response,
     imageUrl |-> IF data.image_url \in ImageUrls \ {NULL}
                  THEN data.image_url ELSE UNDEFINED]

Alternates(q) ==
    \A i \in 1..Len(q) : q[i].role = IF i % 2 = 1 THEN "user" ELSE "assistant"

\* ---------------------------------------------------------------- C1
\* C1: at most one chat request is outstanding at any time, whatever the
\* interleaving of typed sends and speech results.
C1_SingleInFlight == Cardinality(inflight) <= 1

\* ---------------------------------------------------------------- C2
\* C2: once a request has completed successfully and returned session id S
\* (the first success since mount), every request issued afterwards carries
\* session_id = S, never null and never another id.
C2_ConversationContinuity ==
    [][\A r \in Issued : firstSid # NULL => r.session_id = firstSid]_vars

\* ---------------------------------------------------------------- C3
\* C3: after a page refresh the first request carries the session id the
\* client held before the refresh.
C3_SessionSurvivesRefresh ==
    [][\A r \in Issued :
          (heldBeforeRefresh # NULL /\ messages = <<>>)
              => r.session_id = heldBeforeRefresh]_vars

\* ---------------------------------------------------------------- C4
\* C4: when a request fails (fetch rejects, the status is not OK, or the body
\* does not parse) the step that ends it appends exactly one assistant
\* message, the fixed apology without image URL, and nothing of the response.
C4_FailureShowsApology ==
    [][\A r \in inflight :
          (Finishes(r) /\ Failed(r)) => messages' = Append(messages, StaticApology)]_vars

\* The one request issued has failed and has been answered with the apology.
C4_Witness ==
    /\ messages # <<>>
    /\ Last(messages) = StaticApology
    /\ nPosts = 1
    /\ inflight = {}

\* ---------------------------------------------------------------- C5
\* C5: no retry: the number of POSTs issued equals the number of accepted
\* sends in every state, and the step that ends a failed request issues none.
C5_NoRetry ==
    [][/\ nPosts' = nAccepted'
       /\ \A r \in inflight : (Finishes(r) /\ Failed(r)) => nPosts' = nPosts]_vars

\* Two sends were accepted, both failed, and exactly two POSTs went out.
C5_Witness ==
    /\ nAccepted = 2
    /\ nPosts = 2
    /\ Len(messages) = 4
    /\ messages[2] = StaticApology
    /\ messages[4] = StaticApology

\* ---------------------------------------------------------------- C6
\* C6: an issued request carries the accepted text as `message` and the
\* client's current session id as `session_id`; a successful response appends
\* an assistant message with the response's text and its image URL if present.
C6_RequestAndReply ==
    [][/\ \A r \in Issued :
            /\ Last(messages') = [role |-> "user", content |-> r.message,
                                  imageUrl |-> UNDEFINED]
            /\ r.session_id = sessionId
       /\ \A r \in inflight :
            (Finishes(r) /\ Succeeded(r))
                => messages' = Append(messages, ReplyFor(r.outcome.data))]_vars

\* ---------------------------------------------------------------- C7
\* C7: while the component stays mounted the session id, once non-null,
\* never changes.
C7_SessionIdStable ==
    [][(sessionId # NULL /\ ~Refresh) => sessionId' = sessionId]_vars

C9_LoadingIffOutstanding == isLoading <=> inflight # {}

\* ---------------------------------------------------------------- C10
\* C10: while mounted the message list only grows by appending, and it
\* alternates user, assistant, user, assistant from a user message on.
C10_AppendOnlyAlternating ==
    [][~Refresh => (IsPrefix(messages, messages') /\ Alternates(messages'))]_vars

\* ---------------------------------------------------------------- C11
\* C11: a send is never accepted while isLoading is true, and no user message
\* whose content is empty or only whitespace is ever appended or sent, be the
\* text typed or spoken.
C11_RejectedSendChangesNothing ==
    [][/\ isLoading => Issued = {}
       /\ \A r \in Issued : Trim(r.message) # <<>>
       /\ \A i \in 1..Len(messages') :
            messages'[i].role = "user" => Trim(messages'[i].content) # <<>>]_vars

\* ---------------------------------------------------------------- C12
\* C12: when every issued request eventually succeeds or fails, every accepted
\* send is eventually finished, the step that finishes it appends an assistant
\* message (the reply or the apology), and isLoading always returns to false.
C12_EventuallyAnswered ==
    /\ \A id \in 1..MaxRequests : (id \in Ids(inflight)) ~> (id \notin Ids(inflight))
    /\ isLoading ~> ~isLoading
    /\ [][\A r \in inflight :
            Finishes(r) =>
                messages' = Append(messages,
                                   IF Succeeded(r) THEN ReplyFor(r.outcome.data)
                                   ELSE StaticApology)]_vars

\* Two sends were accepted, one failed and one succeeded, both are answered
\* and the controls are released.
C12_Witness ==
    /\ nAccepted = 2
    /\ inflight = {}
    /\ ~isLoading
    /\ Len(messages) = 4
    /\ StaticApology \in {messages[2], messages[4]}
    /\ \E m \in {messages[2], messages[4]} : m.content \in Replies

====
